---- MODULE Spec2Model ----
(***************************************************************************)
(* Model of crawler/crawl.py: the breadth-first, single-hostname crawler.  *)
(* URLs are sequences of one-character strings, so that parsing,           *)
(* re-serialising and normalising a URL are computed character by          *)
(* character, as urllib.parse and the code do.                             *)
(***************************************************************************)
EXTENDS Integers, Sequences, FiniteSets, TLC

(***************************************************************************)
(* Characters and small string helpers                                     *)
(***************************************************************************)
Digits == {"0", "1", "2", "3", "4", "5", "6", "7", "8", "9"}

LowerLetters ==
  <<"a", "b", "c", "d", "e", "f", "g", "h", "i", "j", "k", "l", "m",
    "n", "o", "p", "q", "r", "s", "t", "u", "v", "w", "x", "y", "z">>

UpperLetters ==
  <<"A", "B", "C", "D", "E", "F", "G", "H", "I", "J", "K", "L", "M",
    "N", "O", "P", "Q", "R", "S", "T", "U", "V", "W", "X", "Y", "Z">>

Range(f) == {f[i] : i \in DOMAIN f}

Letters == Range(LowerLetters) \cup Range(UpperLetters)

\* str.lower() on one character
LowerChar(c) ==
  IF c \in Range(UpperLetters)
  THEN LowerLetters[CHOOSE i \in 1..26 : UpperLetters[i] = c]
  ELSE c

\* str.lower()
Lower(s) == [i \in 1..Len(s) |-> LowerChar(s[i])]

\* str.find over a set of characters: the first index >= from whose
\* character is in cs, 0 when there is none (indices are 1-based)
Find(s, cs, from) ==
  LET I == {i \in from..Len(s) : s[i] \in cs}
  IN  IF I = {} THEN 0 ELSE CHOOSE i \in I : \A j \in I : i <= j

\* str.rfind of one character: the last index, 0 when there is none
RFind(s, c) ==
  LET I == {i \in 1..Len(s) : s[i] = c}
  IN  IF I = {} THEN 0 ELSE CHOOSE i \in I : \A j \in I : i >= j

\* the slice s[a..b], clamped to the string as Python's slices are
Sub(s, a, b) ==
  LET lo == IF a < 1 THEN 1 ELSE a
      hi == IF b > Len(s) THEN Len(s) ELSE b
  IN  IF lo > hi THEN <<>> ELSE SubSeq(s, lo, hi)

\* str.rstrip(chars)
RStrip(s, cs) ==
  LET K == {i \in 1..Len(s) : s[i] \notin cs}
  IN  IF K = {} THEN <<>>
      ELSE Sub(s, 1, CHOOSE i \in K : \A j \in K : i >= j)

\* str.lstrip(chars)
LStrip(s, cs) ==
  LET K == {i \in 1..Len(s) : s[i] \notin cs}
  IN  IF K = {} THEN <<>>
      ELSE Sub(s, CHOOSE i \in K : \A j \in K : i <= j, Len(s))

\* str.strip(chars)
Strip(s, cs) == LStrip(RStrip(s, cs), cs)

\* f"{index}": the decimal digits of a natural number
RECURSIVE Decimal(_)
Decimal(n) ==
  LET d == <<"0", "1", "2", "3", "4", "5", "6", "7", "8", "9">>[(n % 10) + 1]
  IN  IF n < 10 THEN <<d>> ELSE Decimal(n \div 10) \o <<d>>

(***************************************************************************)
(* urllib.parse as crawl.py uses it                                        *)
(***************************************************************************)
None == <<"N", "o", "n", "e", " ">>

HTTP == <<"h", "t", "t", "p">>
HTTPS == <<"h", "t", "t", "p", "s">>
FTP == <<"f", "t", "p">>

\* the schemes of urllib's uses_netloc, uses_params and uses_relative that
\* the model's URLs can carry (the empty scheme included)
UsesNetloc == {<<>>, HTTP, HTTPS, FTP}

SchemeChars == Letters \cup Digits \cup {"+", "-", "."}

\* str.partition over a set of characters: the part before the first
\* occurrence (head), whether there is one (found) and the part after (tail)
Partition(s, cs) ==
  IF Find(s, cs, 1) = 0
  THEN [head |-> s, found |-> FALSE, tail |-> <<>>]
  ELSE [head |-> Sub(s, 1, Find(s, cs, 1) - 1),
        found |-> TRUE,
        tail |-> Sub(s, Find(s, cs, 1) + 1, Len(s))]

\* str.rpartition(c)[2]: the part after the last occurrence of c
AfterLast(s, c) == Sub(s, RFind(s, c) + 1, Len(s))

\* urlsplit: whether the characters before the first ":" are a scheme
HasScheme(raw, colon) ==
  /\ colon > 1
  /\ raw[1] \in Letters
  /\ \A k \in 1..(colon - 1) : raw[k] \in SchemeChars

\* urlsplit: the lower-cased scheme, default when there is none, and the
\* rest of the string
SplitScheme(raw, colon, default) ==
  IF HasScheme(raw, colon)
  THEN [scheme |-> Lower(Sub(raw, 1, colon - 1)),
        rest |-> Sub(raw, colon + 1, Len(raw))]
  ELSE [scheme |-> default, rest |-> raw]

\* _splitnetloc(url, 2): the end of the netloc that starts after "//"
NetlocEnd(url, delim) == IF delim = 0 THEN Len(url) + 1 ELSE delim

\* urlsplit: the netloc after "//" and the rest of the string
SplitNetloc(url) ==
  IF Sub(url, 1, 2) = <<"/", "/">>
  THEN [netloc |-> Sub(url, 3, NetlocEnd(url, Find(url, {"/", "?", "#"}, 3)) - 1),
        rest |-> Sub(url, NetlocEnd(url, Find(url, {"/", "?", "#"}, 3)),
                     Len(url))]
  ELSE [netloc |-> <<>>, rest |-> url]

\* _splitparams(url): the index of the ";" that starts the params of the
\* last path segment, 0 when there is none
ParamsAt(url) ==
  Find(url, {";"}, IF RFind(url, "/") > 0 THEN RFind(url, "/") ELSE 1)

\* urlparse: the path and params of a URL whose other parts are split off
SplitParams(scheme, url, at) ==
  IF scheme \in UsesNetloc /\ at > 0
  THEN [path |-> Sub(url, 1, at - 1), params |-> Sub(url, at + 1, Len(url))]
  ELSE [path |-> url, params |-> <<>>]

ParseResult(scheme, netloc, pp, query, fragment) ==
  [scheme |-> scheme,
   netloc |-> netloc,
   path |-> pp.path,
   params |-> pp.params,
   query |-> query,
   fragment |-> fragment]

\* urlsplit after the fragment has been split off
ParseQuery(scheme, netloc, q, fragment) ==
  ParseResult(scheme, netloc, SplitParams(scheme, q.head, ParamsAt(q.head)),
              q.tail, fragment)

\* urlsplit after the netloc has been split off
ParseFragment(scheme, netloc, f) ==
  ParseQuery(scheme, netloc, Partition(f.head, {"?"}), f.tail)

\* urlsplit after the scheme has been split off
ParseNetloc(scheme, n) ==
  ParseFragment(scheme, n.netloc, Partition(n.rest, {"#"}))

ParseScheme(s) == ParseNetloc(s.scheme, SplitNetloc(s.rest))

\* urlparse(raw, scheme=default)
urlparseDefault(raw, default) ==
  ParseScheme(SplitScheme(raw, Find(raw, {":"}, 1), default))

\* urlparse(raw): scheme, netloc, path, params, query, fragment
urlparse(raw) == urlparseDefault(raw, <<>>)

\* urlunparse: the path with its params
PathWithParams(parsed) ==
  IF parsed.params # <<>>
  THEN parsed.path \o <<";">> \o parsed.params
  ELSE parsed.path

\* urlunsplit: "//", the netloc and the path
NetlocAndPath(scheme, netloc, url) ==
  IF \/ netloc # <<>>
     \/ /\ scheme # <<>>
        /\ scheme \in UsesNetloc
        /\ Sub(url, 1, 2) # <<"/", "/">>
  THEN <<"/", "/">> \o netloc
         \o (IF url # <<>> /\ url[1] # "/" THEN <<"/">> ELSE <<>>)
         \o url
  ELSE url

\* ParseResult.geturl(): urlunparse of the six components
geturl(parsed) ==
  (IF parsed.scheme # <<>> THEN parsed.scheme \o <<":">> ELSE <<>>)
    \o NetlocAndPath(parsed.scheme, parsed.netloc, PathWithParams(parsed))
    \o (IF parsed.query # <<>> THEN <<"?">> \o parsed.query ELSE <<>>)
    \o (IF parsed.fragment # <<>> THEN <<"#">> \o parsed.fragment ELSE <<>>)

\* urldefrag(raw)[0]
urldefrag(raw) ==
  IF Find(raw, {"#"}, 1) > 0
  THEN geturl([urlparse(raw) EXCEPT !.fragment = <<>>])
  ELSE raw

\* _hostinfo: the host of a netloc, without user information and port
HostOf(netloc) == Partition(AfterLast(netloc, "@"), {":"}).head

\* ParseResult.hostname: the lower-cased host of the netloc, None if empty
hostname(parsed) ==
  IF HostOf(parsed.netloc) = <<>> THEN None ELSE Lower(HostOf(parsed.netloc))

\* str.split(c): the pieces of s between the occurrences of c
RECURSIVE Split(_, _)
Split(s, c) ==
  IF Find(s, {c}, 1) = 0 THEN <<s>>
  ELSE <<Partition(s, {c}).head>> \o Split(Partition(s, {c}).tail, c)

\* c.join(parts)
RECURSIVE Join(_, _)
Join(parts, c) ==
  IF parts = <<>> THEN <<>>
  ELSE IF Len(parts) = 1 THEN parts[1]
  ELSE parts[1] \o <<c>> \o Join(Tail(parts), c)

\* filter(None, parts): the non-empty strings of a sequence, in order
RECURSIVE NonEmptyParts(_)
NonEmptyParts(parts) ==
  IF parts = <<>> THEN <<>>
  ELSE (IF parts[1] # <<>> THEN <<parts[1]>> ELSE <<>>)
         \o NonEmptyParts(Tail(parts))

\* urljoin's removal of the dot segments of a path
RECURSIVE ResolveDots(_, _)
ResolveDots(segments, resolved) ==
  IF segments = <<>> THEN resolved
  ELSE ResolveDots(Tail(segments),
         IF segments[1] = <<".", ".">>
         THEN Sub(resolved, 1, Len(resolved) - 1)
         ELSE IF segments[1] = <<".">> THEN resolved
         ELSE Append(resolved, segments[1]))

\* urljoin: the segments of the base path without its last one
BaseParts(parts) ==
  IF parts[Len(parts)] # <<>> THEN Sub(parts, 1, Len(parts) - 1) ELSE parts

\* urljoin: segments[1:-1] = filter(None, segments[1:-1])
DropEmptyInner(segments) ==
  IF Len(segments) <= 2 THEN segments
  ELSE <<segments[1]>>
         \o NonEmptyParts(Sub(segments, 2, Len(segments) - 1))
         \o <<segments[Len(segments)]>>

\* urljoin: the segments of the joined path before dot removal
JoinedSegments(bpath, path) ==
  IF Sub(path, 1, 1) = <<"/">>
  THEN Split(path, "/")
  ELSE DropEmptyInner(BaseParts(Split(bpath, "/")) \o Split(path, "/"))

\* urljoin: the resolved segments, with an empty last one after "." or ".."
ResolvedPath(segments) ==
  IF segments[Len(segments)] \in {<<".">>, <<".", ".">>}
  THEN Append(ResolveDots(segments, <<>>), <<>>)
  ELSE ResolveDots(segments, <<>>)

OrSlash(path) == IF path = <<>> THEN <<"/">> ELSE path

\* urljoin once base and url are parsed
JoinParsed(base, url, b, u) ==
  IF u.scheme # b.scheme \/ u.scheme \notin UsesNetloc THEN url
  ELSE IF u.netloc # <<>> THEN geturl(u)
  ELSE IF u.path = <<>> /\ u.params = <<>>
  THEN geturl([u EXCEPT !.netloc = b.netloc,
                        !.path = b.path,
                        !.params = b.params,
                        !.query = IF u.query = <<>> THEN b.query
                                  ELSE u.query])
  ELSE geturl([u EXCEPT
                 !.netloc = b.netloc,
                 !.path = OrSlash(Join(ResolvedPath(
                                         JoinedSegments(b.path, u.path)),
                                       "/"))])

JoinWithBase(base, url, b) ==
  JoinParsed(base, url, b, urlparseDefault(url, b.scheme))

\* urljoin(base, url)
urljoin(base, url) ==
  IF base = <<>> THEN url
  ELSE IF url = <<>> THEN base
  ELSE JoinWithBase(base, url, urlparse(base))

(***************************************************************************)
(* The URL helpers of crawl.py                                             *)
(***************************************************************************)
_normalize_prefix(raw) ==
  RStrip(geturl([urlparse(raw) EXCEPT
                   !.fragment = <<>>, !.params = <<>>, !.query = <<>>]),
         {"/"})

\* lines 49-51: the path with its default and without trailing slashes
NormalPath(path) ==
  IF path # <<"/">> /\ path[Len(path)] = "/" THEN RStrip(path, {"/"}) ELSE path

\* lines 47-53: _normalize_url once the defragmented string is parsed
NormalizeParsed(parsed) ==
  IF parsed.scheme \notin {HTTP, HTTPS}
  THEN None
  ELSE geturl([parsed EXCEPT !.path = NormalPath(OrSlash(parsed.path)),
                             !.params = <<>>,
                             !.fragment = <<>>])

_normalize_url(raw) == NormalizeParsed(urlparse(urldefrag(raw)))

_hostname_from_url(raw) == hostname(urlparse(raw))

_is_same_hostname_AnyHost(url, host) ==
  hostname(urlparse(url)) # None

SameHost(candidate_hostname, host) ==
  candidate_hostname # None /\ candidate_hostname = host

_is_same_hostname(url, host) == SameHost(hostname(urlparse(url)), host)

\* string literals of _sanitize_component and _save_html
SEGMENT == <<"s", "e", "g", "m", "e", "n", "t">>
SITE == <<"s", "i", "t", "e">>
ROOT == <<"r", "o", "o", "t">>
POST == <<"p", "o", "s", "t">>
DOTHTML == <<".", "h", "t", "m", "l">>

(***************************************************************************)
(* Match policy and persistence helpers                                    *)
(***************************************************************************)
\* The compiled CRAWL_MATCH_REGEX.  A pattern of the model is a literal
\* followed, when digits is TRUE, by \d+ (as in post/(\d+)).

\* the index of the last digit of the run of digits that starts at index i,
\* 0 when there is no digit at i
RECURSIVE DigitsEnd(_, _)
DigitsEnd(s, i) ==
  IF i > Len(s) \/ s[i] \notin Digits THEN 0
  ELSE IF DigitsEnd(s, i + 1) = 0 THEN i
  ELSE DigitsEnd(s, i + 1)

\* the index of the last character of the match that starts at index i,
\* 0 when the pattern does not match there
MatchEnd(pattern, s, i) ==
  IF Sub(s, i, i + Len(pattern.literal) - 1) # pattern.literal THEN 0
  ELSE IF ~pattern.digits THEN i + Len(pattern.literal) - 1
  ELSE DigitsEnd(s, i + Len(pattern.literal))

\* [match.group(0) for match in matcher.finditer(s)], scanning from index i
RECURSIVE finditer(_, _, _)
finditer(pattern, s, i) ==
  IF i > Len(s) THEN <<>>
  ELSE IF MatchEnd(pattern, s, i) = 0 THEN finditer(pattern, s, i + 1)
  ELSE <<Sub(s, i, MatchEnd(pattern, s, i))>>
         \o finditer(pattern, s, MatchEnd(pattern, s, i) + 1)

\* re.search(r"\d+", match).group(0), None when match has no digit
DigitRun(match) ==
  IF Find(match, Digits, 1) = 0 THEN None
  ELSE Sub(match, Find(match, Digits, 1),
           DigitsEnd(match, Find(match, Digits, 1)))

RECURSIVE _extract_post_number_from_matches(_)
_extract_post_number_from_matches(matches) ==
  IF matches = <<>> THEN None
  ELSE IF DigitRun(matches[1]) # None THEN DigitRun(matches[1])
  ELSE _extract_post_number_from_matches(Tail(matches))

SafeChars == Letters \cup Digits \cup {"_", "-"}

\* value or fallback when value is empty
OrElse(value, fallback) == IF value = <<>> THEN fallback ELSE value

_sanitize_component(value) ==
  OrElse(Strip([i \in 1..Len(value) |->
                  IF value[i] \in SafeChars THEN value[i] ELSE "_"],
               {"_"}),
         SEGMENT)

\* the strings of the model are ASCII: one byte per character
_truncate_for_filename(value, max_bytes) ==
  IF max_bytes <= 0 THEN <<>>
  ELSE IF Len(value) <= max_bytes THEN value
  ELSE Sub(value, 1, max_bytes)

MAX_FILENAME_BYTES == 240

\* hashlib.sha256(url).hexdigest()[:16] is 16 characters long; the model
\* keeps the digest symbolic and collision-free: the URL behind a marker
HashLen == 16

hashed(url) == <<"#">> \o url

\* a path is the directory under OUTPUT_DIR and the file name in it
PathIn(target_dir, name) == [dir |-> target_dir, name |-> name]

\* line 91: the candidate numbered index
Numbered(target_dir, stem, index, suffix) ==
  PathIn(target_dir, stem \o <<"_">> \o Decimal(index) \o suffix)

\* lines 89-94: the first index from index on whose candidate is free
RECURSIVE FreeIndex(_, _, _, _, _)
FreeIndex(existing, target_dir, stem, index, suffix) ==
  IF Numbered(target_dir, stem, index, suffix) \notin existing THEN index
  ELSE FreeIndex(existing, target_dir, stem, index + 1, suffix)

_pick_unique_path_Overwrite(existing, target_dir, stem, suffix) ==
  PathIn(target_dir, stem \o suffix)

_pick_unique_path(existing, target_dir, stem, suffix) ==
  IF PathIn(target_dir, stem \o suffix) \notin existing
  THEN PathIn(target_dir, stem \o suffix)
  ELSE Numbered(target_dir, stem,
                FreeIndex(existing, target_dir, stem, 1, suffix), suffix)

\* line 110: the last non-empty segment of the path, "root" without one
NameSegment(path_segments) ==
  IF path_segments # <<>> THEN path_segments[Len(path_segments)] ELSE ROOT

\* lines 111-113: the sanitized segment cut to the bytes left for it
SafeSegment(name_segment) ==
  OrElse(_truncate_for_filename(
           _sanitize_component(name_segment),
           MAX_FILENAME_BYTES - (1 + HashLen + Len(DOTHTML))),
         SEGMENT)

\* the post number is ignored and every page gets the hashed name
FilenameStem_NoPostNumber(url, path, post_number) ==
  SafeSegment(NameSegment(NonEmptyParts(Split(path, "/"))))
    \o <<"_">> \o hashed(url)

\* lines 114-117
FilenameStem(url, path, post_number) ==
  IF post_number # None
  THEN POST \o <<"_">> \o post_number
  ELSE SafeSegment(NameSegment(NonEmptyParts(Split(path, "/"))))
         \o <<"_">> \o hashed(url)

\* lines 107-121 once url is parsed
SavePathParsed(existing, url, parsed, post_number) ==
  _pick_unique_path(existing,
                    _sanitize_component(OrElse(parsed.netloc, SITE)),
                    FilenameStem(url, parsed.path, post_number),
                    DOTHTML)

\* the path _save_html writes for url in a directory tree holding existing
SavePath(existing, url, post_number) ==
  SavePathParsed(existing, url, urlparse(url), post_number)

\* the metadata object _record_match appends to matches.jsonl
MatchRecord(url, path, matches) ==
  [url |-> url, file |-> path, matches |-> matches]

\* lines 143-147: the candidate of a stripped href
LinkOfStripped(href, base_url) ==
  IF href = <<>> THEN None ELSE _normalize_url(urljoin(base_url, href))

\* one pass of _extract_links over one anchor: the normalized URL it
\* yields, None when the href is empty or not an http(s) URL
LinkOf(rawHref, base_url) == LinkOfStripped(Strip(rawHref, {" "}), base_url)

\* lines 148-149: a candidate is yielded unless it is None
Yield(normalized) == IF normalized # None THEN <<normalized>> ELSE <<>>

\* list(_extract_links(html, base_url)) for the anchors of a page
RECURSIVE _extract_links(_, _)
_extract_links(anchors, base_url) ==
  IF anchors = <<>> THEN <<>>
  ELSE Yield(LinkOf(anchors[1], base_url))
         \o _extract_links(Tail(anchors), base_url)

(***************************************************************************)
(* The inputs of a run: seed, pattern, page budget, the site that answers  *)
(* the fetches and the output directory the run starts with                *)
(***************************************************************************)
UrlBlog ==
  <<"h", "t", "t", "p", ":", "/", "/", "e", "x", ".", "c", "o", "m", "/",
    "b", "l", "o", "g">>
UrlPost42 ==
  <<"h", "t", "t", "p", ":", "/", "/", "e", "x", ".", "c", "o", "m", "/",
    "p", "o", "s", "t", "/", "4", "2">>
UrlAbout ==
  <<"h", "t", "t", "p", ":", "/", "/", "e", "x", ".", "c", "o", "m", "/",
    "a", "b", "o", "u", "t">>
UrlRoot == <<"h", "t", "t", "p", ":", "/", "/", "e", "x", ".", "c", "o", "m">>
RawBlog ==
  <<"h", "t", "t", "p", ":", "/", "/", "e", "x", ".", "c", "o", "m", "/",
    "b", "l", "o", "g", "/">>
RawRoot ==
  <<"h", "t", "t", "p", ":", "/", "/", "e", "x", ".", "c", "o", "m", "/">>
RawUpper ==
  <<"H", "T", "T", "P", ":", "/", "/", "E", "X", ".", "c", "o", "m", "/",
    "b", "l", "o", "g", "?", "x", "#", "y">>
HrefPost42Frag ==
  <<" ", "/", "p", "o", "s", "t", "/", "4", "2", "#", "c", "1", " ">>
HrefPost42Upper ==
  <<"h", "t", "t", "p", ":", "/", "/", "E", "X", ".", "c", "o", "m", "/",
    "p", "o", "s", "t", "/", "4", "2", "/">>
HrefOther ==
  <<"h", "t", "t", "p", ":", "/", "/", "o", "t", "h", "e", "r", ".", "c",
    "o", "m", "/", "p", "o", "s", "t", "/", "7">>
HrefMail == <<"m", "a", "i", "l", "t", "o", ":", "x">>
HrefNoHost == <<"h", "t", "t", "p", "s", ":", "/", "/", "/", "x">>
HrefAbout == <<"a", "b", "o", "u", "t">>
HrefBlank == <<" ">>
HrefBlogSlash ==
  <<"h", "t", "t", "p", ":", "/", "/", "e", "x", ".", "c", "o", "m", "/",
    "b", "l", "o", "g", "/">>
HrefPost43 == <<"/", "p", "o", "s", "t", "/", "4", "3">>
HrefPost42 == <<"/", "p", "o", "s", "t", "/", "4", "2">>
HrefPost43Top ==
  <<"/", "p", "o", "s", "t", "/", "4", "3", "#", "t", "o", "p">>
HrefPost42Query == <<"/", "p", "o", "s", "t", "/", "4", "2", "?", "p", "=", "2">>
HrefHome == <<"/">>
HrefASlash == <<"/", "a", "/">>
HrefRootSlashes ==
  <<"h", "t", "t", "p", ":", "/", "/", "e", "x", ".", "c", "o", "m", "/",
    "/">>
HrefParams == <<"/", "a", ";", "p", "/">>
ResBlog == <<"e", "x", ".", "c", "o", "m", "/", "b", "l", "o", "g">>
ResPost42 ==
  <<"e", "x", ".", "c", "o", "m", "/", "p", "o", "s", "t", "/", "4", "2">>
ResPost43 ==
  <<"e", "x", ".", "c", "o", "m", "/", "p", "o", "s", "t", "/", "4", "3">>
ResPost42Query ==
  <<"e", "x", ".", "c", "o", "m", "/", "p", "o", "s", "t", "/", "4", "2",
    "?", "p", "=", "2">>
ResAbout == <<"e", "x", ".", "c", "o", "m", "/", "a", "b", "o", "u", "t">>
ResRoot == <<"e", "x", ".", "c", "o", "m", "/">>
ResA == <<"e", "x", ".", "c", "o", "m", "/", "a">>
ResAP == <<"e", "x", ".", "c", "o", "m", "/", "a", ";", "p">>
LitPost == <<"p", "o", "s", "t", "/">>
LitA == <<"a">>
DirExCom == <<"e", "x", "_", "c", "o", "m">>
NamePost42 == <<"p", "o", "s", "t", "_", "4", "2", ".", "h", "t", "m", "l">>
Match42 == <<"p", "o", "s", "t", "/", "4", "2">>

\* raw CRAWL_URL_PREFIX values
RawPrefixes == {UrlBlog, RawBlog, RawRoot, RawUpper}

\* compiled CRAWL_MATCH_REGEX values: post/\d+ and the literal a
PostPattern == [literal |-> LitPost, digits |-> TRUE]
LiteralPattern == [literal |-> LitA, digits |-> FALSE]
Patterns == {PostPattern, LiteralPattern}

\* the largest CRAWL_MAX_PAGES of the model (0 is "no budget")
MaxBudget == 2

\* the largest number of fetches that fail in one run
MaxFailures == 2

\* A site maps a resource (host and request target) to the hrefs of the
\* anchors of its page, in document order; other resources answer 404.
Site1 ==
  (ResBlog :> <<UrlPost42, UrlAbout>>)
    @@ (ResPost42 :> <<>>)
    @@ (ResAbout :> <<>>)

Site2 ==
  (ResBlog :> <<HrefPost42Frag, HrefPost42Upper, HrefOther, HrefMail,
                HrefNoHost, HrefAbout, HrefBlank>>)
    @@ (ResPost42 :> <<HrefBlogSlash, HrefPost43, HrefPost42>>)
    @@ (ResAbout :> <<HrefPost43Top>>)
    @@ (ResPost43 :> <<HrefPost42Query>>)
    @@ (ResPost42Query :> <<>>)

Site3 ==
  (ResRoot :> <<HrefHome, HrefASlash, HrefRootSlashes>>)
    @@ (ResBlog :> <<HrefHome>>)
    @@ (ResA :> <<HrefParams, HrefHome>>)
    @@ (ResAP :> <<>>)

Sites == {Site1, Site2, Site3}

\* the resource of a parsed URL
ResourceParsed(parsed) ==
  hostname(parsed)
    \o OrSlash(parsed.path)
    \o (IF parsed.params = <<>> THEN <<>> ELSE <<";">> \o parsed.params)
    \o (IF parsed.query = <<>> THEN <<>> ELSE <<"?">> \o parsed.query)

\* the resource session.get(url) asks for: the server ignores the case of
\* the host and serves "/" for an empty path
Resource(url) == ResourceParsed(urlparse(url))

\* the output tree and matches.jsonl left by an earlier run
PriorFiles == {[dir |-> DirExCom, name |-> NamePost42]}
PriorLog ==
  <<[url |-> UrlPost42,
     file |-> [dir |-> DirExCom, name |-> NamePost42],
     matches |-> <<Match42>>]>>

(***************************************************************************)
(* State of one run of crawl()                                             *)
(***************************************************************************)
VARIABLES
  pc,               \* position in crawl(): loop, fetch, match, links,
                    \* done (returned), raised (left by an exception)
  prefix,           \* argument prefix
  matcher,          \* argument matcher
  max_pages,        \* argument max_pages
  site,             \* the site behind session.get
  queue,            \* the Frontier
  discovered,       \* DiscoveredSet
  visited,          \* VisitedSet
  saved,            \* pagesSaved
  processed,        \* pagesProcessed
  allowed_hostname, \* AllowedHostname
  current,          \* the URL being handled
  response,         \* the anchors of response.text
  pending,          \* the anchors _extract_links has not reached yet
  files,            \* the files under OUTPUT_DIR
  log,              \* the lines of matches.jsonl
  populated,        \* whether the run started on a populated OUTPUT_DIR
  enqueued,         \* history: every URL appended to queue, in order
  fetched,          \* history: every URL session.get was called with
  failed,           \* history: the URLs whose fetch raised
  raw,              \* URL Normalizer check: the raw string
  once,             \* _normalize_url(raw)
  twice             \* _normalize_url(once)

crawlVars ==
  <<pc, prefix, matcher, max_pages, site, queue, discovered, visited, saved,
    processed, allowed_hostname, current, response, pending, files, log,
    populated, enqueued, fetched, failed>>

normVars == <<raw, once, twice>>

vars == <<crawlVars, normVars>>

\* lines 156-161: the state crawl() builds before its loop
CrawlInit(rawPrefix) ==
  /\ pc = "loop"
  /\ prefix = _normalize_prefix(rawPrefix)
  /\ queue = <<prefix>>
  /\ discovered = {prefix}
  /\ visited = {}
  /\ saved = 0
  /\ processed = 0
  /\ allowed_hostname = _hostname_from_url(prefix)
  /\ current = None
  /\ response = <<>>
  /\ pending = <<>>
  /\ enqueued = <<prefix>>
  /\ fetched = <<>>
  /\ failed = {}

Init ==
  /\ \E rawPrefix \in RawPrefixes : CrawlInit(rawPrefix)
  /\ matcher \in Patterns
  /\ max_pages \in 0..MaxBudget
  /\ site \in Sites
  /\ populated \in BOOLEAN
  /\ files = IF populated THEN PriorFiles ELSE {}
  /\ log = IF populated THEN PriorLog ELSE <<>>
  /\ raw = <<>>
  /\ once = None
  /\ twice = None

\* line 172: the condition of the while loop
LoopCondition_OffByOne ==
  queue # <<>> /\ (max_pages = 0 \/ processed <= max_pages)

LoopCondition ==
  queue # <<>> /\ (max_pages = 0 \/ processed < max_pages)

\* lines 172-175: the loop test, popleft and the visited check
Dequeue ==
  /\ pc = "loop"
  /\ LoopCondition
  /\ current' = Head(queue)
  /\ queue' = Tail(queue)
  /\ pc' = IF Head(queue) \in visited THEN "loop" ELSE "fetch"
  /\ UNCHANGED <<prefix, matcher, max_pages, site, discovered, visited, saved,
                 processed, allowed_hostname, response, pending, files, log,
                 populated, enqueued, fetched, failed, normVars>>

\* lines 172, 212-215: the loop ends and crawl() returns (processed, saved)
Return ==
  /\ pc = "loop"
  /\ ~LoopCondition
  /\ pc' = "done"
  /\ UNCHANGED <<prefix, matcher, max_pages, site, queue, discovered, visited,
                 saved, processed, allowed_hostname, current, response,
                 pending, files, log, populated, enqueued, fetched, failed,
                 normVars>>

\* lines 177-183: session.get or raise_for_status raises RequestException
FetchFails_Counted ==
  /\ pc = "fetch"
  /\ \/ Resource(current) \notin DOMAIN site
     \/ Cardinality(failed) < MaxFailures
  /\ fetched' = Append(fetched, current)
  /\ failed' = failed \cup {current}
  /\ visited' = visited \cup {current}
  /\ processed' = processed + 1
  /\ pc' = "loop"
  /\ UNCHANGED <<prefix, matcher, max_pages, site, queue, discovered, saved,
                 allowed_hostname, current, response, pending, files, log,
                 populated, enqueued, normVars>>

FetchFails ==
  /\ pc = "fetch"
  /\ \/ Resource(current) \notin DOMAIN site
     \/ Cardinality(failed) < MaxFailures
  /\ fetched' = Append(fetched, current)
  /\ failed' = failed \cup {current}
  /\ visited' = visited \cup {current}
  /\ pc' = "loop"
  /\ UNCHANGED <<prefix, matcher, max_pages, site, queue, discovered, saved,
                 processed, allowed_hostname, current, response, pending,
                 files, log, populated, enqueued, normVars>>

\* lines 178-179, 185: the fetch succeeds and the page is counted
FetchSucceeds ==
  /\ pc = "fetch"
  /\ Resource(current) \in DOMAIN site
  /\ fetched' = Append(fetched, current)
  /\ response' = site[Resource(current)]
  /\ processed' = processed + 1
  /\ pc' = "match"
  /\ UNCHANGED <<prefix, matcher, max_pages, site, queue, discovered, visited,
                 saved, allowed_hostname, current, pending, files, log,
                 populated, enqueued, failed, normVars>>

\* line 187: the matches of the pattern in the URL of the page; the text of
\* the page (its anchors) is not looked at
Matches_Body(url, text) == finditer(matcher, Join(text, " "), 1)

Matches(url, text) == finditer(matcher, url, 1)

\* lines 188-193: a matched page is written, recorded and counted
\* matches.jsonl opened for writing instead of appending
_record_match_Rewrite(entries, url, path, matches) ==
  <<MatchRecord(url, path, matches)>>

\* lines 134-136: matches.jsonl after one record is written at its end
_record_match(entries, url, path, matches) ==
  Append(entries, MatchRecord(url, path, matches))

\* lines 188-193: a page whose URL matched is saved, recorded and counted
SaveAndRecord(matches, path) ==
  IF matches # <<>>
  THEN /\ files' = files \cup {path}
       /\ log' = _record_match(log, current, path, matches)
       /\ saved' = saved + 1
  ELSE UNCHANGED <<files, log, saved>>

\* lines 189-190: the path _save_html picks for the current page
CurrentPath(matches) ==
  SavePath(files, current, _extract_post_number_from_matches(matches))

\* lines 187-195: match the URL, save and record a matched page, then
\* start the pass over the links of the page
MatchAndSave ==
  /\ pc = "match"
  /\ SaveAndRecord(Matches(current, response),
                   CurrentPath(Matches(current, response)))
  /\ pending' = response
  /\ pc' = "links"
  /\ UNCHANGED <<prefix, matcher, max_pages, site, queue, discovered, visited,
                 processed, allowed_hostname, current, response, populated,
                 enqueued, fetched, failed, normVars>>

\* lines 120-122, 190: mkdir or write_text raises OSError, which crawl()
\* does not catch; the file may or may not have been created
SaveFails ==
  /\ pc = "match"
  /\ Matches(current, response) # <<>>
  /\ files' \in {files,
                 files \cup {CurrentPath(Matches(current, response))}}
  /\ pc' = "raised"
  /\ UNCHANGED <<prefix, matcher, max_pages, site, queue, discovered, visited,
                 saved, processed, allowed_hostname, current, response,
                 pending, log, populated, enqueued, fetched, failed,
                 normVars>>

\* lines 198-200: whether a candidate yielded by _extract_links is new
ShouldEnqueue_Visited(candidate) ==
  /\ _is_same_hostname(candidate, allowed_hostname)
  /\ candidate \notin visited

ShouldEnqueue_NoDedup(candidate) ==
  _is_same_hostname(candidate, allowed_hostname)

ShouldEnqueue(candidate) ==
  /\ _is_same_hostname(candidate, allowed_hostname)
  /\ candidate \notin discovered

\* line 202: queue.append(candidate)
Push_Front(q, candidate) == <<candidate>> \o q

Push(q, candidate) == Append(q, candidate)

\* the candidate is appended without being added to discovered
Consider_NotDiscovered(candidate) ==
  IF candidate # None /\ ShouldEnqueue(candidate)
  THEN /\ discovered' = discovered
       /\ queue' = Push(queue, candidate)
       /\ enqueued' = Append(enqueued, candidate)
  ELSE UNCHANGED <<discovered, queue, enqueued>>

\* lines 198-202: an in-scope candidate that is new is added to
\* discovered and appended to the queue
Consider(candidate) ==
  IF candidate # None /\ ShouldEnqueue(candidate)
  THEN /\ discovered' = discovered \cup {candidate}
       /\ queue' = Push(queue, candidate)
       /\ enqueued' = Append(enqueued, candidate)
  ELSE UNCHANGED <<discovered, queue, enqueued>>

\* lines 142-151, 195-202: the next anchor of the page; its candidate is
\* appended when it is in scope and not discovered yet
NextLink ==
  /\ pc = "links"
  /\ pending # <<>>
  /\ Consider(LinkOf(Head(pending), current))
  /\ pending' = Tail(pending)
  /\ UNCHANGED <<pc, prefix, matcher, max_pages, site, visited, saved,
                 processed, allowed_hostname, current, response, files, log,
                 populated, fetched, failed, normVars>>

\* line 210: the links are exhausted and the page is marked visited
MarkVisited ==
  /\ pc = "links"
  /\ pending = <<>>
  /\ visited' = visited \cup {current}
  /\ pc' = "loop"
  /\ UNCHANGED <<prefix, matcher, max_pages, site, queue, discovered, saved,
                 processed, allowed_hostname, current, response, pending,
                 files, log, populated, enqueued, fetched, failed, normVars>>

Next ==
  \/ Dequeue
  \/ Return
  \/ FetchFails
  \/ FetchSucceeds
  \/ MatchAndSave
  \/ SaveFails
  \/ NextLink
  \/ MarkVisited

Spec == Init /\ [][Next]_vars

(***************************************************************************)
(* The URL Normalizer on its own: raw strings are grown one character at   *)
(* a time from a few stems and _normalize_url is applied once and twice    *)
(***************************************************************************)
NormStems == {<<"h", "t", "t", "p", ":", "/", "/", "e">>,
              <<"h", "t", "t", "p", "s", ":", "/", "/", "E">>,
              <<"f", "t", "p", ":", "/", "/", "e">>}

NormChars == {"/", "a", ";", "?", "#"}

\* the longest raw string handed to _normalize_url
MaxRawLen == 11

NormInit ==
  /\ pc = "norm_raw"
  /\ raw \in NormStems
  /\ once = None
  /\ twice = None
  /\ prefix = None
  /\ matcher = PostPattern
  /\ max_pages = 0
  /\ site = Site1
  /\ queue = <<>>
  /\ discovered = {}
  /\ visited = {}
  /\ saved = 0
  /\ processed = 0
  /\ allowed_hostname = None
  /\ current = None
  /\ response = <<>>
  /\ pending = <<>>
  /\ files = {}
  /\ log = <<>>
  /\ populated = FALSE
  /\ enqueued = <<>>
  /\ fetched = <<>>
  /\ failed = {}

\* one more character of the raw string
Extend ==
  /\ pc = "norm_raw"
  /\ Len(raw) < MaxRawLen
  /\ \E c \in NormChars : raw' = Append(raw, c)
  /\ UNCHANGED <<crawlVars, once, twice>>

\* lines 44-53: _normalize_url(raw)
NormalizeOnce ==
  /\ pc = "norm_raw"
  /\ once' = _normalize_url(raw)
  /\ pc' = "norm_once"
  /\ UNCHANGED <<prefix, matcher, max_pages, site, queue, discovered, visited,
                 saved, processed, allowed_hostname, current, response,
                 pending, files, log, populated, enqueued, fetched, failed,
                 raw, twice>>

\* lines 44-53: _normalize_url applied to its own result
NormalizeTwice ==
  /\ pc = "norm_once"
  /\ once # None
  /\ twice' = _normalize_url(once)
  /\ pc' = "norm_twice"
  /\ UNCHANGED <<prefix, matcher, max_pages, site, queue, discovered, visited,
                 saved, processed, allowed_hostname, current, response,
                 pending, files, log, populated, enqueued, fetched, failed,
                 raw, once>>

NormNext == Extend \/ NormalizeOnce \/ NormalizeTwice

NormSpec == NormInit /\ [][NormNext]_vars

(***************************************************************************)
(* Properties                                                              *)
(***************************************************************************)
NoDuplicates(s) == \A i, j \in DOMAIN s : s[i] = s[j] => i = j

\* the elements of a sequence of URLs that are not in a set, in order
RECURSIVE Without(_, _)
Without(s, S) ==
  IF s = <<>> THEN <<>>
  ELSE (IF s[1] \in S THEN <<>> ELSE <<s[1]>>) \o Without(Tail(s), S)

\* the URLs of a sequence that are in scope, in order
RECURSIVE InScope(_)
InScope(links) ==
  IF links = <<>> THEN <<>>
  ELSE (IF _is_same_hostname(links[1], allowed_hostname)
        THEN <<links[1]>> ELSE <<>>) \o InScope(Tail(links))

\* the in-scope links of the page at url, in document order
InScopeLinks(url) ==
  IF Resource(url) \notin DOMAIN site THEN <<>>
  ELSE InScope(_extract_links(site[Resource(url)], url))

\* C1: each URL string is appended to the Frontier at most once, and
\* DiscoveredSet is exactly the set of the URLs appended so far, so a URL
\* that is discovered again (as a duplicate or as a fragment or
\* trailing-slash variant that normalizes to it) is not appended again.
C1_EnqueuedAtMostOnce ==
  /\ NoDuplicates(enqueued)
  /\ discovered = Range(enqueued)

\* a run over Site2 that ended after the blog page (three variants of
\* /post/42) and the post page (links back to both) were handled
C1_Witness ==
  /\ pc = "done"
  /\ site = Site2
  /\ {UrlBlog, UrlPost42} \subseteq (visited \ failed)
  /\ Cardinality({i \in DOMAIN enqueued : enqueued[i] = UrlPost42}) = 1

\* a step in which the fetch of the dequeued URL fails
FetchFailureStep == pc = "fetch" /\ pc' = "loop"

\* C2 as stated: a failed fetch still increments pagesProcessed, writes no
\* MatchRecord, marks the URL visited and leaves the Frontier to be crawled.
C2_FailureCounted ==
  [][FetchFailureStep =>
       /\ processed' = processed + 1
       /\ log' = log /\ files' = files /\ saved' = saved
       /\ current \in visited'
       /\ queue' = queue]_vars

\* C2 amended: a failed fetch leaves pagesProcessed unchanged, writes no
\* MatchRecord, marks the URL visited and leaves the Frontier to be crawled.
C2_FailureNotCounted ==
  [][FetchFailureStep =>
       /\ processed' = processed
       /\ log' = log /\ files' = files /\ saved' = saved
       /\ current \in visited'
       /\ queue' = queue]_vars

\* a fetch failed and a later URL of the Frontier was fetched successfully
C2_Witness ==
  \E i, j \in DOMAIN fetched :
    /\ i < j
    /\ fetched[i] \in failed
    /\ fetched[j] \notin failed
    /\ processed < Len(fetched)

\* C3: with a page budget N > 0, pagesProcessed <= N in every state and in
\* the result; with budget 0 the loop ends only on an empty Frontier.
C3_Budget ==
  /\ max_pages > 0 => processed <= max_pages
  /\ (pc = "done" /\ max_pages = 0) => queue = <<>>

\* the run stopped on its budget with URLs left in the Frontier
C3_Witness ==
  /\ pc = "done"
  /\ max_pages > 0
  /\ processed = max_pages
  /\ queue # <<>>

\* the URL strings linked from the pages of a set of URLs
LinkedFrom(S) == UNION {Range(InScopeLinks(u)) : u \in S}

\* the URL strings reachable from the seed over the in-scope links
RECURSIVE Reach(_)
Reach(S) == IF LinkedFrom(S) \subseteq S THEN S ELSE Reach(S \cup LinkedFrom(S))

\* C4 as stated: without a budget (and with every fetch succeeding) the
\* run ends with the Frontier empty and pagesProcessed equal to the number
\* of distinct normalized URLs reachable from the seed.
C4_ProcessedEqualsReachable ==
  (pc = "done" /\ max_pages = 0 /\ failed = {}) =>
    /\ queue = <<>>
    /\ processed = Cardinality({_normalize_url(u) : u \in Reach({prefix})})

\* C5: every URL in the Frontier or DiscoveredSet has the hostname of the
\* seed (compared in lower case) and carries no fragment.
C5_Scope ==
  /\ allowed_hostname = _hostname_from_url(enqueued[1])
  /\ \A u \in discovered \cup Range(queue) :
       /\ _hostname_from_url(u) = allowed_hostname
       /\ Find(u, {"#"}, 1) = 0

\* the blog page of Site2 (links to another host, to a URL without host
\* and to /post/42#c1) has been handled
C5_Witness ==
  /\ site = Site2
  /\ UrlBlog \in visited \ failed
  /\ UrlPost42 \in discovered

\* C6: a fetch is attempted at most once per URL, and a visited URL is
\* never in the Frontier again.
C6_FetchedOnce ==
  /\ NoDuplicates(fetched)
  /\ \A u \in visited : u \notin Range(queue)
  /\ (pc = "fetch") => current \notin visited

\* the post page of Site2 has just yielded its link back to the visited
\* blog page
C6_Witness ==
  /\ site = Site2
  /\ pc = "links"
  /\ current = UrlPost42
  /\ pending = <<HrefPost43, HrefPost42>>
  /\ UrlBlog \in visited

\* C7 as stated: two URLs that normalize to the same NormalizedURL are one
\* crawl target, the seed included: no two fetches of a run are for URLs
\* with the same normal form.
C7_OneTargetPerNormalForm ==
  \A i, j \in DOMAIN fetched :
    _normalize_url(fetched[i]) = _normalize_url(fetched[j]) => i = j

\* acc followed by the URLs of links that are not in it yet, in order
RECURSIVE AppendNew(_, _)
AppendNew(acc, links) ==
  IF links = <<>> THEN acc
  ELSE AppendNew(IF links[1] \in Range(acc) THEN acc
                 ELSE Append(acc, links[1]),
                 Tail(links))

\* the order in which a breadth-first traversal discovers URLs: the seed,
\* then the new in-scope links of each fetched page in document order
RECURSIVE BfsOrder(_, _)
BfsOrder(pages, acc) ==
  IF pages = <<>> THEN acc
  ELSE BfsOrder(Tail(pages),
                AppendNew(acc, IF pages[1] \in failed THEN <<>>
                               ELSE InScopeLinks(pages[1])))

\* the number of URLs taken from the Frontier so far
Dequeued == Len(fetched) + (IF pc = "fetch" THEN 1 ELSE 0)

\* C8: the Frontier is FIFO: URLs are fetched in exactly the order in which
\* they were appended, the Frontier is what was appended and not yet
\* dequeued, and the order of appending is the breadth-first order (the new
\* links of each fetched page at the tail, in document order).
C8_Fifo ==
  /\ Len(fetched) <= Len(enqueued)
  /\ \A i \in DOMAIN fetched : fetched[i] = enqueued[i]
  /\ queue = Sub(enqueued, Dequeued + 1, Len(enqueued))
  /\ pc \in {"loop", "fetch", "done"} => enqueued = BfsOrder(fetched, <<prefix>>)

\* three pages of Site2 were fetched while URLs discovered later wait
C8_Witness ==
  /\ site = Site2
  /\ Len(fetched) >= 3
  /\ Len(queue) >= 2
  /\ pc = "loop"

\* matches.jsonl as the run found it
InitialLog == IF populated THEN PriorLog ELSE <<>>

\* the records appended to matches.jsonl by this run
Appended == Sub(log, Len(InitialLog) + 1, Len(log))

\* the successfully fetched pages whose match step is over
Handled ==
  Without(IF pc \in {"match", "raised"}
          THEN Sub(fetched, 1, Len(fetched) - 1)
          ELSE fetched,
          failed)

\* the URLs of a sequence in which the pattern has a match
RECURSIVE UrlMatched(_)
UrlMatched(s) ==
  IF s = <<>> THEN <<>>
  ELSE (IF finditer(matcher, s[1], 1) # <<>> THEN <<s[1]>> ELSE <<>>)
         \o UrlMatched(Tail(s))

\* C9: a fetched page is persisted if and only if the pattern matches in
\* its URL, whatever its body holds: the records appended by the run are,
\* in order, one per successfully fetched page whose URL matches, each with
\* the matches of the URL, and pagesSaved is their number.
C9_MatchOnUrlOnly ==
  pc # "raised" =>
    /\ [i \in DOMAIN Appended |-> Appended[i].url] = UrlMatched(Handled)
    /\ \A i \in DOMAIN Appended :
         Appended[i].matches = finditer(matcher, Appended[i].url, 1)
    /\ saved = Len(Appended)

\* the scenario site was crawled to the end: the body of the blog page
\* holds post/42 but only the post page, whose URL matches, was persisted
C9_Witness ==
  /\ pc = "done"
  /\ site = Site1
  /\ matcher = PostPattern
  /\ prefix = UrlBlog
  /\ processed = 3
  /\ saved = 1
  /\ Appended[1].url = UrlPost42

\* C10 as stated: _normalize_url is idempotent on http(s) URLs.
C10_Idempotent == pc = "norm_twice" => twice = once

\* a step in which _save_html has written a page and crawl() has counted it
SaveStep == pc = "match" /\ saved' = saved + 1

\* the file names a save of the current page may pick: the stem, then the
\* stem with _1, _2, ...
StemOfCurrent ==
  FilenameStem(current, urlparse(current).path,
               _extract_post_number_from_matches(finditer(matcher, current, 1)))

\* path is the first free one of stem.html, stem_1.html, stem_2.html, ...
FirstFree(path, stem, existing) ==
  /\ path \notin existing
  /\ path.dir = _sanitize_component(urlparse(current).netloc)
  /\ \/ path.name = stem \o DOTHTML
     \/ \E n \in 1..Cardinality(existing) :
          /\ path.name = stem \o <<"_">> \o Decimal(n) \o DOTHTML
          /\ [dir |-> path.dir, name |-> stem \o DOTHTML] \in existing
          /\ \A j \in 1..(n - 1) :
               [dir |-> path.dir,
                name |-> stem \o <<"_">> \o Decimal(j) \o DOTHTML] \in existing

\* C11: a save never overwrites: it adds exactly one file, whose path did
\* not exist and is the first free one of stem.html, stem_1.html, ...; so
\* the files recorded by one run are pairwise distinct, also for URLs with
\* the same stem, and none of them is a file an earlier run left.
C11_NeverOverwrites ==
  /\ [][SaveStep =>
          /\ files \subseteq files'
          /\ Cardinality(files') = Cardinality(files) + 1
          /\ \A path \in files' \ files :
               /\ FirstFree(path, StemOfCurrent, files)
               /\ log'[Len(log')].file = path]_vars
  /\ [](/\ NoDuplicates([i \in DOMAIN Appended |-> Appended[i].file])
        /\ \A i \in DOMAIN Appended :
             Appended[i].file \in files \ (IF populated THEN PriorFiles ELSE {})
        /\ (IF populated THEN PriorFiles ELSE {}) \subseteq files)

NamePost42_1 ==
  <<"p", "o", "s", "t", "_", "4", "2", "_", "1", ".", "h", "t", "m", "l">>
NamePost42_2 ==
  <<"p", "o", "s", "t", "_", "4", "2", "_", "2", ".", "h", "t", "m", "l">>

\* on a populated directory, the two URLs of Site2 with post number 42
\* were saved next to the post_42.html of the earlier run
C11_Witness ==
  /\ populated
  /\ site = Site2
  /\ matcher = PostPattern
  /\ \E i, j \in DOMAIN Appended :
       /\ Appended[i].url # Appended[j].url
       /\ Appended[i].file = [dir |-> DirExCom, name |-> NamePost42_1]
       /\ Appended[j].file = [dir |-> DirExCom, name |-> NamePost42_2]
  /\ PriorFiles \subseteq files

\* the position of the first occurrence of a URL in a sequence of URLs
PosIn(s, url) == CHOOSE i \in DOMAIN s : s[i] = url /\ \A j \in 1..(i - 1) : s[j] # url

\* C12: the match log is append-only: every step leaves the records already
\* in the log unchanged and in place, the log grows only in a step that
\* saves a page, and then by exactly one record {url, file, matches} at its
\* end; the records of the run appear in the order in which their pages
\* were fetched.
C12_AppendOnly ==
  /\ [][/\ Len(log') >= Len(log)
         /\ Sub(log', 1, Len(log)) = log
         /\ Len(log') = Len(log) + (IF SaveStep THEN 1 ELSE 0)
         /\ SaveStep =>
              /\ DOMAIN log'[Len(log')] = {"url", "file", "matches"}
              /\ log'[Len(log')].url = current
              /\ log'[Len(log')].matches = finditer(matcher, current, 1)
              /\ log'[Len(log')].file \in files' \ files]_vars
  /\ [](/\ Sub(log, 1, Len(InitialLog)) = InitialLog
        /\ \A i \in DOMAIN Appended :
             /\ \E k \in DOMAIN fetched : fetched[k] = Appended[i].url
             /\ \A j \in DOMAIN Appended :
                  i < j => PosIn(fetched, Appended[i].url)
                             < PosIn(fetched, Appended[j].url))

\* a populated log after the run has appended three records to it
C12_Witness ==
  /\ populated
  /\ Len(Appended) >= 3
  /\ log[1] = PriorLog[1]
  /\ \E k \in DOMAIN fetched :
       /\ k > 1
       /\ fetched[k] = Appended[3].url
       /\ finditer(matcher, fetched[k - 1], 1) = <<>>

\* a step in which the URL of the fetched page matched and _save_html
\* raised instead of returning
SaveFailureStep ==
  /\ pc = "match"
  /\ finditer(matcher, current, 1) # <<>>
  /\ saved' = saved
  /\ pc' # pc

\* C13: a filesystem error while saving a matched page is not fatal to the
\* run: after the step in which the save fails, crawl() goes on with the
\* links of the page or with the next URL of the queue.
C13_SaveFailureNotFatal ==
  [][SaveFailureStep => pc' \in {"links", "loop"}]_vars

\* the run of the scenario: seed http://ex.com/blog, pattern post/\d+, an
\* empty output directory, the seed page linking to /post/42 and /about,
\* no fetch failed and the budget did not stop the run
Scenario ==
  /\ prefix = UrlBlog
  /\ matcher = PostPattern
  /\ site = Site1
  /\ ~populated
  /\ failed = {}
  /\ (max_pages = 0 \/ max_pages >= 3)
  /\ pc = "done"

\* C14: the scenario ends with exactly one record in the match log, for
\* http://ex.com/post/42 with matches <<"post/42">>, one stored file named
\* post_42.html, pagesSaved = 1 and pagesProcessed = 3.
C14_Scenario ==
  Scenario =>
    /\ log = <<[url |-> UrlPost42,
                file |-> [dir |-> DirExCom, name |-> NamePost42],
                matches |-> <<Match42>>]>>
    /\ files = {[dir |-> DirExCom, name |-> NamePost42]}
    /\ saved = 1
    /\ processed = 3

\* the scenario has run to its end, the three pages fetched in order
C14_Witness ==
  /\ Scenario
  /\ fetched = <<UrlBlog, UrlPost42, UrlAbout>>
  /\ queue = <<>>

\* the path as the Normalizer is specified to leave it: "/" for an empty
\* path, one trailing "/" less for a path other than "/" that ends in "/"
StripOneSlash(path) ==
  IF path = <<>> THEN <<"/">>
  ELSE IF path # <<"/">> /\ path[Len(path)] = "/"
  THEN Sub(path, 1, Len(path) - 1)
  ELSE path

\* the URL put together from the components of a defragmented http(s) URL
\* with at most one trailing "/" taken off its path, its query as it is and
\* no params
SpecifiedNormalForm(parsed) ==
  geturl([parsed EXCEPT !.path = StripOneSlash(parsed.path),
                        !.params = <<>>,
                        !.fragment = <<>>])

\* C15: for an http(s) URL, _normalize_url takes exactly one trailing "/"
\* off a path that is not "/" (a path ending in "//" keeps one "/"), turns
\* an empty path into "/", leaves the query as it is and removes params and
\* fragment.
C15_StripsOneSlash ==
  (pc = "norm_once" /\ urlparse(raw).scheme \in {HTTP, HTTPS}) =>
    once = SpecifiedNormalForm(urlparse(urldefrag(raw)))

\* 1 while a fetched page is between processed += 1 and visited.add
InProcess == IF pc \in {"match", "links", "raised"} THEN 1 ELSE 0

\* C16: in every state of crawl(), visited is a subset of discovered, every
\* URL of the queue is in discovered and not in visited, and
\* saved <= processed <= the number of visited URLs plus the one being
\* processed; no step takes an element out of discovered or visited or
\* lowers processed or saved.
C16_LoopInvariants ==
  /\ [](/\ visited \subseteq discovered
        /\ \A i \in DOMAIN queue :
             queue[i] \in discovered /\ queue[i] \notin visited
        /\ saved <= processed
        /\ processed <= Cardinality(visited) + InProcess)
  /\ [][/\ discovered \subseteq discovered'
        /\ visited \subseteq visited'
        /\ processed' >= processed
        /\ saved' >= saved]_vars

\* a page is being processed after another page was saved and a fetch
\* failed, while discovered URLs still wait in the queue
C16_Witness ==
  /\ pc = "links"
  /\ processed = Cardinality(visited)
  /\ failed # {}
  /\ saved >= 1
  /\ queue # <<>>
  /\ Cardinality(discovered) > Cardinality(visited) + Len(queue)

====
